---- MODULE Spec2Model ----
(***************************************************************************)
(* Board / Post stores of nest-practice.                                   *)
(*                                                                         *)
(* BoardService (src/src/board/board.service.ts) and the in-memory         *)
(* PostService (src/unnamed/part_004) keep their records in arrays and     *)
(* hand out identifiers from a counter.  The repository-backed PostService *)
(* (src/unnamed/part_003) keeps its posts in a table behind awaited calls. *)
(* The exception classes of src/src/common/exceptions carry a status and   *)
(* two predicates on it.                                                   *)
(***************************************************************************)
EXTENDS Integers, Sequences, FiniteSets, TLC

(* ---------------- bounds ---------------- *)
\* number of Board.create calls explored
MaxBoards == 2
\* number of Post.create calls explored
MaxPosts == 2
\* last clock value explored; the clock starts at 1
MaxTime == 2
\* number of successful create / update / remove calls explored
MaxWrites == 4
\* number of repository-backed calls that can be suspended at the same time
MaxReqs == 2
\* records of one store, and successful writes, explored where the order of
\* findAll is examined: three records, one of them soft-deleted, leave two
MaxListed == 3
MaxListWrites == 5
\* last clock value explored there; the clock starts at 1, so every call of a
\* run reads the same time, as calls within one millisecond do
MaxListTime == 1

(* ---------------- values ---------------- *)
\* the null of a deletedAt column; real timestamps are >= 1
NULL == 0
\* an update DTO property that is not present (reads as undefined)
Absent == "absent"
\* an update DTO property that is present with the value null
NullV == "null"
\* titles and bodies (description / content) a create call supplies
CreateTitles == {"t1"}
CreateBodies == {"c1"}
\* what the optional properties of an update DTO can hold
UpdateTitles == {"t2", Absent, NullV}
UpdateBodies == {"c2", Absent, NullV}
\* what a board_id property can hold in the object handed to the
\* repository-backed update: nothing, or the id of a board
NoRef == 0
UpdateBoardRefs == {NoRef} \cup (1..MaxBoards)
\* the DTO values explored for a call: an update that fails at its lookup never
\* reads its DTO, so one DTO stands for all of them
DtoFor(found, values) == IF found THEN values ELSE {Absent}

\* identifiers a caller may ask for; one that is not assigned yet is asked for
\* while fewer records than the bound exist
BoardIds == 1..MaxBoards
PostIds == 1..MaxPosts
\* the boardId argument of Post.findAll when it is not supplied
NoFilter == 0

VARIABLES
  boards,       \* BoardService.boards
  boardNextId,  \* BoardService.nextId
  posts,        \* PostService.posts (in-memory)
  postNextId,   \* PostService.nextId (in-memory)
  rows,         \* the posts table behind postRepository (repository-backed)
  rowNextId,    \* the next value of the generated primary key of the table
  reqs,         \* the repository-backed calls that are suspended at an await
  clock,        \* the value the last `new Date()` returned
  writes,       \* how many create / update / remove calls have succeeded
  last,         \* the last call: operation, arguments, outcome
  exc,          \* the exception object constructed last (common/exceptions)
  mockFindOne   \* what findOne of a mocked BoardService is set up to do

vars == <<boards, boardNextId, posts, postNextId, rows, rowNextId, reqs,
          clock, writes, last, exc, mockFindOne>>
\* the state of the in-memory PostService and of the repository-backed one
memVars == <<posts, postNextId>>
repoVars == <<rows, rowNextId, reqs>>

(* ---------------- entities ---------------- *)
Board(id, title, description, createdAt, updatedAt, deletedAt) ==
  [id |-> id, title |-> title, description |-> description,
   createdAt |-> createdAt, updatedAt |-> updatedAt, deletedAt |-> deletedAt]

Post(id, boardId, title, content, createdAt, updatedAt, deletedAt) ==
  [id |-> id, boardId |-> boardId, title |-> title, content |-> content,
   createdAt |-> createdAt, updatedAt |-> updatedAt, deletedAt |-> deletedAt]

\* find without the `deletedAt === null` test
FindIdxAnyState(arr, id) ==
  LET hit(i) == arr[i].id = id
  IN IF \E i \in 1..Len(arr) : hit(i)
     THEN CHOOSE i \in 1..Len(arr) : hit(i) /\ \A j \in 1..(i - 1) : ~hit(j)
     ELSE 0

\* Array.prototype.find: index of the first element with the id that is not
\* soft-deleted, 0 when there is none
FindIdx(arr, id) ==
  LET hit(i) == arr[i].id = id /\ arr[i].deletedAt = NULL
  IN IF \E i \in 1..Len(arr) : hit(i)
     THEN CHOOSE i \in 1..Len(arr) : hit(i) /\ \A j \in 1..(i - 1) : ~hit(j)
     ELSE 0

\* the records of an array, those that are not soft-deleted, and whether an
\* id belongs to an active record
Range(seq) == {seq[i] : i \in 1..Len(seq)}
ActiveOf(arr) == {r \in Range(arr) : r.deletedAt = NULL}
HasActive(arr, id) == \E r \in Range(arr) : r.id = id /\ r.deletedAt = NULL

\* a call as recorded in `last`: the operation, its id (or boardId) argument
\* and the error it raised
Call(op, id, err) == [op |-> op, id |-> id, err |-> err]

(* ---------------- BoardService ---------------- *)
\* create that numbers the new board after the boards it can still see
BoardCreateCountActive(bs, nextId, title, description, now) ==
  LET n == Len(SelectSeq(bs, LAMBDA b : b.deletedAt = NULL)) + 1
      board == Board(n, title, description, now, now, NULL)
  IN [err |-> "none", boards |-> Append(bs, board), nextId |-> nextId + 1,
      ret |-> <<board>>]

\* create that leaves updatedAt unset
BoardCreateNoUpdatedAt(bs, nextId, title, description, now) ==
  LET board == Board(nextId, title, description, now, NULL, NULL)
  IN [err |-> "none", boards |-> Append(bs, board), nextId |-> nextId + 1,
      ret |-> <<board>>]

\* create that stores the new board as already soft-deleted
BoardCreateHidden(bs, nextId, title, description, now) ==
  LET board == Board(nextId, title, description, now, now, now)
  IN [err |-> "none", boards |-> Append(bs, board), nextId |-> nextId + 1,
      ret |-> <<board>>]

BoardCreateOp(bs, nextId, title, description, now) ==
  LET board == Board(nextId, title, description, now, now, NULL)
  IN [err |-> "none", boards |-> Append(bs, board), nextId |-> nextId + 1,
      ret |-> <<board>>]

\* findAll that lists the newest board first
BoardFindAllNewestFirst(bs) ==
  LET act == SelectSeq(bs, LAMBDA board : board.deletedAt = NULL)
  IN [i \in 1..Len(act) |-> act[Len(act) + 1 - i]]

BoardFindAll(bs) == SelectSeq(bs, LAMBDA board : board.deletedAt = NULL)

BoardFindOne(bs, id) ==
  LET i == FindIdx(bs, id)
  IN IF i = 0 THEN [err |-> "NotFound", idx |-> 0, ret |-> <<>>]
     ELSE [err |-> "none", idx |-> i, ret |-> <<bs[i]>>]

\* update that assigns description without the undefined / null guard
BoardUpdateUnguarded(bs, id, title, description, now) ==
  LET f == BoardFindOne(bs, id)
  IN IF f.err # "none" THEN [err |-> f.err, boards |-> bs, ret |-> <<>>]
     ELSE LET b1 == bs[f.idx]
              b2 == IF title # Absent /\ title # NullV
                    THEN [b1 EXCEPT !.title = title] ELSE b1
              b4 == [b2 EXCEPT !.description = description, !.updatedAt = now]
          IN [err |-> "none", boards |-> [bs EXCEPT ![f.idx] = b4],
              ret |-> <<b4>>]

\* update that touches updatedAt only when a field was overwritten
BoardUpdateTouchIfChanged(bs, id, title, description, now) ==
  LET f == BoardFindOne(bs, id)
  IN IF f.err # "none" THEN [err |-> f.err, boards |-> bs, ret |-> <<>>]
     ELSE LET b1 == bs[f.idx]
              b2 == IF title # Absent /\ title # NullV
                    THEN [b1 EXCEPT !.title = title] ELSE b1
              b3 == IF description # Absent /\ description # NullV
                    THEN [b2 EXCEPT !.description = description] ELSE b2
              b4 == IF b3 # b1 THEN [b3 EXCEPT !.updatedAt = now] ELSE b3
          IN [err |-> "none", boards |-> [bs EXCEPT ![f.idx] = b4],
              ret |-> <<b4>>]

BoardUpdateOp(bs, id, title, description, now) ==
  LET f == BoardFindOne(bs, id)
  IN IF f.err # "none" THEN [err |-> f.err, boards |-> bs, ret |-> <<>>]
     ELSE LET b1 == bs[f.idx]
              b2 == IF title # Absent /\ title # NullV
                    THEN [b1 EXCEPT !.title = title] ELSE b1
              b3 == IF description # Absent /\ description # NullV
                    THEN [b2 EXCEPT !.description = description] ELSE b2
              b4 == [b3 EXCEPT !.updatedAt = now]
          IN [err |-> "none", boards |-> [bs EXCEPT ![f.idx] = b4],
              ret |-> <<b4>>]

\* remove that finds soft-deleted boards too and stamps them again
BoardRemoveRestamp(bs, id, now) ==
  LET i == FindIdxAnyState(bs, id)
  IN IF i = 0 THEN [err |-> "NotFound", boards |-> bs]
     ELSE [err |-> "none", boards |-> [bs EXCEPT ![i].deletedAt = now]]

\* remove that takes the record out of the array
BoardRemoveSplice(bs, id, now) ==
  LET f == BoardFindOne(bs, id)
  IN IF f.err # "none" THEN [err |-> f.err, boards |-> bs]
     ELSE [err |-> "none",
           boards |-> SubSeq(bs, 1, f.idx - 1) \o SubSeq(bs, f.idx + 1, Len(bs))]

BoardRemoveOp(bs, id, now) ==
  LET f == BoardFindOne(bs, id)
  IN IF f.err # "none" THEN [err |-> f.err, boards |-> bs]
     ELSE [err |-> "none",
           boards |-> [bs EXCEPT ![f.idx].deletedAt = now]]

(* ---------------- PostService (in-memory) ---------------- *)
\* create without the board lookup
PostCreateUnchecked(ps, nextId, bs, boardId, title, content, now) ==
  LET post == Post(nextId, boardId, title, content, now, now, NULL)
  IN [err |-> "none", posts |-> Append(ps, post), nextId |-> nextId + 1,
      ret |-> <<post>>]

\* create that forgets to advance nextId
PostCreateSameId(ps, nextId, bs, boardId, title, content, now) ==
  IF BoardFindOne(bs, boardId).err # "none"
  THEN [err |-> "BadRequest", posts |-> ps, nextId |-> nextId, ret |-> <<>>]
  ELSE LET post == Post(nextId, boardId, title, content, now, now, NULL)
       IN [err |-> "none", posts |-> Append(ps, post), nextId |-> nextId,
           ret |-> <<post>>]

\* the message of the BadRequestException of create
BoardNotFoundMessage(boardId) == <<"Board with ID", boardId, "not found">>

\* create that translates only NotFound and lets any other error through
PostCreateRethrowOthers(ps, nextId, lookup, boardId, title, content, now) ==
  IF lookup = "NotFound"
  THEN [err |-> "BadRequest", message |-> BoardNotFoundMessage(boardId),
        posts |-> ps, nextId |-> nextId, ret |-> <<>>]
  ELSE IF lookup # "none"
  THEN [err |-> lookup, message |-> <<>>, posts |-> ps, nextId |-> nextId,
        ret |-> <<>>]
  ELSE LET post == Post(nextId, boardId, title, content, now, now, NULL)
       IN [err |-> "none", message |-> <<>>, posts |-> Append(ps, post),
           nextId |-> nextId + 1, ret |-> <<post>>]

\* PostService.create given what boardService.findOne(boardId) did: lookup is
\* "none" when it returned and the kind of error when it threw
PostCreateGiven(ps, nextId, lookup, boardId, title, content, now) ==
  IF lookup # "none"
  THEN [err |-> "BadRequest", message |-> BoardNotFoundMessage(boardId),
        posts |-> ps, nextId |-> nextId, ret |-> <<>>]
  ELSE LET post == Post(nextId, boardId, title, content, now, now, NULL)
       IN [err |-> "none", message |-> <<>>, posts |-> Append(ps, post),
           nextId |-> nextId + 1, ret |-> <<post>>]

\* create whose board check does not look at deletedAt
PostCreateAnyBoard(ps, nextId, bs, boardId, title, content, now) ==
  IF FindIdxAnyState(bs, boardId) = 0
  THEN [err |-> "BadRequest", posts |-> ps, nextId |-> nextId, ret |-> <<>>]
  ELSE LET post == Post(nextId, boardId, title, content, now, now, NULL)
       IN [err |-> "none", posts |-> Append(ps, post), nextId |-> nextId + 1,
           ret |-> <<post>>]

\* create that takes its identifier before the board check
PostCreateConsumeId(ps, nextId, bs, boardId, title, content, now) ==
  IF BoardFindOne(bs, boardId).err # "none"
  THEN [err |-> "BadRequest", posts |-> ps, nextId |-> nextId + 1, ret |-> <<>>]
  ELSE LET post == Post(nextId, boardId, title, content, now, now, NULL)
       IN [err |-> "none", posts |-> Append(ps, post), nextId |-> nextId + 1,
           ret |-> <<post>>]

PostCreateOp(ps, nextId, bs, boardId, title, content, now) ==
  PostCreateGiven(ps, nextId, BoardFindOne(bs, boardId).err, boardId, title,
                  content, now)

\* findAll whose filtered branch does not look at deletedAt
PostFindAllDeletedToo(ps, boardId) ==
  IF boardId # NoFilter
  THEN SelectSeq(ps, LAMBDA post : post.boardId = boardId)
  ELSE SelectSeq(ps, LAMBDA post : post.deletedAt = NULL)

\* findAll that ignores its boardId argument
PostFindAllUnfiltered(ps, boardId) ==
  SelectSeq(ps, LAMBDA post : post.deletedAt = NULL)

PostFindAll(ps, boardId) ==
  IF boardId # NoFilter
  THEN SelectSeq(ps, LAMBDA post : post.boardId = boardId /\ post.deletedAt = NULL)
  ELSE SelectSeq(ps, LAMBDA post : post.deletedAt = NULL)

PostFindOne(ps, id) ==
  LET i == FindIdx(ps, id)
  IN IF i = 0 THEN [err |-> "NotFound", idx |-> 0, ret |-> <<>>]
     ELSE [err |-> "none", idx |-> i, ret |-> <<ps[i]>>]

\* update that stamps createdAt as well as updatedAt
PostUpdateRestamp(ps, id, title, content, now) ==
  LET f == PostFindOne(ps, id)
  IN IF f.err # "none" THEN [err |-> f.err, posts |-> ps, ret |-> <<>>]
     ELSE LET p1 == ps[f.idx]
              p2 == IF title # Absent /\ title # NullV
                    THEN [p1 EXCEPT !.title = title] ELSE p1
              p3 == IF content # Absent /\ content # NullV
                    THEN [p2 EXCEPT !.content = content] ELSE p2
              p4 == [p3 EXCEPT !.updatedAt = now, !.createdAt = now]
          IN [err |-> "none", posts |-> [ps EXCEPT ![f.idx] = p4],
              ret |-> <<p4>>]

\* update that creates the post when the id has no active record
PostUpdateUpsert(ps, id, title, content, now) ==
  LET f == PostFindOne(ps, id)
  IN IF f.err # "none"
     THEN LET p0 == Post(id, 1, title, content, now, now, NULL)
          IN [err |-> "none", posts |-> Append(ps, p0), ret |-> <<p0>>]
     ELSE LET p1 == ps[f.idx]
              p2 == IF title # Absent /\ title # NullV
                    THEN [p1 EXCEPT !.title = title] ELSE p1
              p3 == IF content # Absent /\ content # NullV
                    THEN [p2 EXCEPT !.content = content] ELSE p2
              p4 == [p3 EXCEPT !.updatedAt = now]
          IN [err |-> "none", posts |-> [ps EXCEPT ![f.idx] = p4],
              ret |-> <<p4>>]

PostUpdateOp(ps, id, title, content, now) ==
  LET f == PostFindOne(ps, id)
  IN IF f.err # "none" THEN [err |-> f.err, posts |-> ps, ret |-> <<>>]
     ELSE LET p1 == ps[f.idx]
              p2 == IF title # Absent /\ title # NullV
                    THEN [p1 EXCEPT !.title = title] ELSE p1
              p3 == IF content # Absent /\ content # NullV
                    THEN [p2 EXCEPT !.content = content] ELSE p2
              p4 == [p3 EXCEPT !.updatedAt = now]
          IN [err |-> "none", posts |-> [ps EXCEPT ![f.idx] = p4],
              ret |-> <<p4>>]

\* remove that also stamps updatedAt
PostRemoveTouch(ps, id, now) ==
  LET f == PostFindOne(ps, id)
  IN IF f.err # "none" THEN [err |-> f.err, posts |-> ps]
     ELSE [err |-> "none",
           posts |-> [ps EXCEPT ![f.idx].deletedAt = now, ![f.idx].updatedAt = now]]

PostRemoveOp(ps, id, now) ==
  LET f == PostFindOne(ps, id)
  IN IF f.err # "none" THEN [err |-> f.err, posts |-> ps]
     ELSE [err |-> "none",
           posts |-> [ps EXCEPT ![f.idx].deletedAt = now]]

(* ---------------- PostService (repository-backed) ---------------- *)
\* a row of the posts table (the TypeORM entity Post)
PostRow(id, board_id, title, content, createdAt, updatedAt, deletedAt) ==
  [id |-> id, board_id |-> board_id, title |-> title, content |-> content,
   createdAt |-> createdAt, updatedAt |-> updatedAt, deletedAt |-> deletedAt]

\* a call slot with no suspended call in it
Idle == [st |-> "idle", id |-> 0, title |-> Absent, content |-> Absent,
         post |-> <<>>]

\* a call suspended at its second await: st says which method, id, title and
\* content are its arguments, post is the entity object the method holds
Suspended(st, id, title, content, post) ==
  [st |-> st, id |-> id, title |-> title, content |-> content, post |-> post]

\* Object.assign(post, updatePostDto): every property the DTO carries is
\* copied, whatever its value
ObjectAssign(post, title, content, board_id) ==
  LET p1 == IF title # Absent THEN [post EXCEPT !.title = title] ELSE post
      p2 == IF content # Absent THEN [p1 EXCEPT !.content = content] ELSE p1
  IN IF board_id # NoRef THEN [p2 EXCEPT !.board_id = board_id] ELSE p2

\* postRepository.find: the rows that are not soft-deleted, of one board when
\* board_id is given
RepoFind(rs, board_id) ==
  IF board_id # NoFilter
  THEN SelectSeq(rs, LAMBDA row : row.board_id = board_id /\ row.deletedAt = NULL)
  ELSE SelectSeq(rs, LAMBDA row : row.deletedAt = NULL)

\* PostService.findOne over postRepository.findOne
RepoFindOne(rs, id) ==
  LET i == FindIdx(rs, id)
  IN IF i = 0 THEN [err |-> "NotFound", ret |-> <<>>]
     ELSE [err |-> "none", ret |-> <<rs[i]>>]

\* postRepository.save of a new entity: the table generates id and timestamps
RepoInsert(rs, nextId, board_id, title, content, now) ==
  LET row == PostRow(nextId, board_id, title, content, now, now, NULL)
  IN [rows |-> Append(rs, row), nextId |-> nextId + 1, ret |-> <<row>>]

\* postRepository.save of a loaded entity: the row with its id takes the
\* entity's columns and a new updatedAt.  A null in a column the entity
\* declares as a plain @Column() is either refused by the table or stored,
\* depending on how the schema was created.
RepoSave(rs, post, now) ==
  LET k == CHOOSE i \in 1..Len(rs) : rs[i].id = post.id
      stored == [rs EXCEPT ![k] = [@ EXCEPT !.board_id = post.board_id,
                                            !.title = post.title,
                                            !.content = post.content,
                                            !.updatedAt = now]]
  IN IF post.title = NullV \/ post.content = NullV
     THEN {[err |-> "ServerError", rows |-> rs], [err |-> "none", rows |-> stored]}
     ELSE {[err |-> "none", rows |-> stored]}

\* postRepository.softRemove: deletedAt of the row takes the current time
RepoSoftRemove(rs, post, now) ==
  LET k == CHOOSE i \in 1..Len(rs) : rs[i].id = post.id
  IN [rs EXCEPT ![k].deletedAt = now]

(* ---------------- common/exceptions ---------------- *)
\* the members of HttpStatus the exception classes name
BAD_REQUEST == 400
UNAUTHORIZED == 401
FORBIDDEN == 403
NOT_FOUND == 404
CONFLICT == 409
INTERNAL_SERVER_ERROR == 500
NOT_IMPLEMENTED == 501
SERVICE_UNAVAILABLE == 503
GATEWAY_TIMEOUT == 504

\* a statusCode argument that is not passed (reads as undefined)
NoStatus == 0
\* messages, status codes and error codes the constructors are called with;
\* Absent is an argument that is not passed
Messages == {"m1", "m2"}
OptionalMessages == {Absent, "m1"}
StatusCodes == {NoStatus, 399, 400, 404, 499, 500, 503, 599, 600}
ErrorCodes == {Absent, "E1"}

\* a default parameter value: used when the argument is undefined
DefaultMessage(message, text) == IF message = Absent THEN text ELSE message
DefaultStatus(statusCode, status) == IF statusCode = NoStatus THEN status ELSE statusCode

\* no exception has been constructed
NoException ==
  [name |-> "none", message |-> Absent, errorCode |-> Absent, statusCode |-> 0,
   timestamp |-> 0]

\* new BaseException(...) as seen through a subclass called name: the response
\* body fields and the status handed to HttpException
BaseException(name, message, statusCode, errorCode, now) ==
  [name |-> name, message |-> message, errorCode |-> errorCode,
   statusCode |-> statusCode, timestamp |-> now]

\* HttpException.getStatus
getStatus(e) == e.statusCode

\* isClientError with 500 counted in
isClientErrorUpTo500(e) ==
  LET status == getStatus(e)
  IN status >= 400 /\ status <= 500

isClientError(e) ==
  LET status == getStatus(e)
  IN status >= 400 /\ status < 500

isServerError(e) ==
  LET status == getStatus(e)
  IN status >= 500 /\ status < 600

ClientErrorException(name, message, statusCode, errorCode, now) ==
  BaseException(name, message, DefaultStatus(statusCode, BAD_REQUEST), errorCode, now)

BadRequestException(message, errorCode, now) ==
  ClientErrorException("BadRequestException",
                       DefaultMessage(message, "default BadRequest message"),
                       BAD_REQUEST, errorCode, now)

UnauthorizedException(message, errorCode, now) ==
  ClientErrorException("UnauthorizedException",
                       DefaultMessage(message, "default Unauthorized message"),
                       UNAUTHORIZED, errorCode, now)

ForbiddenException(message, errorCode, now) ==
  ClientErrorException("ForbiddenException",
                       DefaultMessage(message, "default Forbidden message"),
                       FORBIDDEN, errorCode, now)

\* NotFoundException that passes the status of its neighbour
NotFoundExceptionAsBadRequest(message, errorCode, now) ==
  ClientErrorException("NotFoundException",
                       DefaultMessage(message, "default NotFound message"),
                       BAD_REQUEST, errorCode, now)

NotFoundException(message, errorCode, now) ==
  ClientErrorException("NotFoundException",
                       DefaultMessage(message, "default NotFound message"),
                       NOT_FOUND, errorCode, now)

ConflictException(message, errorCode, now) ==
  ClientErrorException("ConflictException",
                       DefaultMessage(message, "default Conflict message"),
                       CONFLICT, errorCode, now)

ServerErrorException(name, message, statusCode, errorCode, now) ==
  BaseException(name, message, DefaultStatus(statusCode, INTERNAL_SERVER_ERROR),
                errorCode, now)

InternalServerErrorException(message, errorCode, now) ==
  ServerErrorException("InternalServerErrorException",
                       DefaultMessage(message, "default InternalServerError message"),
                       INTERNAL_SERVER_ERROR, errorCode, now)

NotImplementedException(message, errorCode, now) ==
  ServerErrorException("NotImplementedException",
                       DefaultMessage(message, "default NotImplemented message"),
                       NOT_IMPLEMENTED, errorCode, now)

ServiceUnavailableException(message, errorCode, now) ==
  ServerErrorException("ServiceUnavailableException",
                       DefaultMessage(message, "default ServiceUnavailable message"),
                       SERVICE_UNAVAILABLE, errorCode, now)

GatewayTimeoutException(message, errorCode, now) ==
  ServerErrorException("GatewayTimeoutException",
                       DefaultMessage(message, "default GatewayTimeout message"),
                       GATEWAY_TIMEOUT, errorCode, now)

(* ---------------- state machine ---------------- *)
Init ==
  /\ boards = <<>>
  /\ boardNextId = 1
  /\ posts = <<>>
  /\ postNextId = 1
  /\ rows = <<>>
  /\ rowNextId = 1
  /\ reqs = [r \in 1..MaxReqs |-> Idle]
  /\ clock = 1
  /\ writes = 0
  /\ last = Call("init", 0, "none")
  /\ exc = NoException
  /\ mockFindOne = "none"

\* `new Date()`: the clock never runs backwards; a call that fails before it
\* reaches `new Date()` does not read it
NowWithin(maxTime, found) == IF found THEN clock..maxTime ELSE {clock}
Now(found) == NowWithin(MaxTime, found)

\* a repository-backed call that gets past its first await counts as a write
\* from then on
Began(ok) ==
  /\ ok => writes < MaxWrites
  /\ writes' = IF ok THEN writes + 1 ELSE writes

\* a call that would succeed is explored only while the write budget lasts
CanWriteWithin(maxWrites, found) == found => writes < maxWrites
CanWrite(found) == CanWriteWithin(MaxWrites, found)

\* a call that raised err read the clock (and counts as a write) only when it
\* succeeded
WroteWithin(maxWrites, err, now) ==
  /\ err = "none" => writes < maxWrites
  /\ writes' = IF err = "none" THEN writes + 1 ELSE writes
  /\ clock' = IF err = "none" THEN now ELSE clock
Wrote(err, now) == WroteWithin(MaxWrites, err, now)

\* the calls that write, explored up to a number of records and of successful
\* writes; the same calls under the bounds of the module follow
BoardCreateWithin(maxBoards, maxWrites, maxTime, title, description) ==
  /\ CanWriteWithin(maxWrites, TRUE)
  /\ boardNextId <= maxBoards
  /\ \E now \in NowWithin(maxTime, TRUE) :
       LET r == BoardCreateOp(boards, boardNextId, title, description, now)
       IN /\ boards' = r.boards
          /\ boardNextId' = r.nextId
          /\ WroteWithin(maxWrites, r.err, now)
          /\ last' = Call("Board.create", 0, r.err)
  /\ UNCHANGED <<memVars, repoVars, exc, mockFindOne>>

BoardUpdateWithin(maxWrites, maxTime, id, title, description) ==
  /\ CanWriteWithin(maxWrites, HasActive(boards, id))
  /\ \E now \in NowWithin(maxTime, BoardFindOne(boards, id).err = "none") :
       LET r == BoardUpdateOp(boards, id, title, description, now)
       IN /\ boards' = r.boards
          /\ WroteWithin(maxWrites, r.err, now)
          /\ last' = Call("Board.update", id, r.err)
  /\ UNCHANGED <<boardNextId, memVars, repoVars, exc, mockFindOne>>

BoardRemoveWithin(maxWrites, maxTime, id) ==
  /\ CanWriteWithin(maxWrites, HasActive(boards, id))
  /\ \E now \in NowWithin(maxTime, BoardFindOne(boards, id).err = "none") :
       LET r == BoardRemoveOp(boards, id, now)
       IN /\ boards' = r.boards
          /\ WroteWithin(maxWrites, r.err, now)
          /\ last' = Call("Board.remove", id, r.err)
  /\ UNCHANGED <<boardNextId, memVars, repoVars, exc, mockFindOne>>

PostCreateWithin(maxPosts, maxWrites, maxTime, boardId, title, content) ==
  /\ postNextId <= maxPosts
  /\ CanWriteWithin(maxWrites, HasActive(boards, boardId))
  /\ \E now \in NowWithin(maxTime, BoardFindOne(boards, boardId).err = "none") :
       LET r == PostCreateOp(posts, postNextId, boards, boardId, title, content, now)
       IN /\ posts' = r.posts
          /\ postNextId' = r.nextId
          /\ WroteWithin(maxWrites, r.err, now)
          /\ last' = Call("Post.create", boardId, r.err)
  /\ UNCHANGED <<boards, boardNextId, repoVars, exc, mockFindOne>>

PostUpdateWithin(maxWrites, maxTime, id, title, content) ==
  /\ CanWriteWithin(maxWrites, HasActive(posts, id))
  /\ \E now \in NowWithin(maxTime, PostFindOne(posts, id).err = "none") :
       LET r == PostUpdateOp(posts, id, title, content, now)
       IN /\ posts' = r.posts
          /\ WroteWithin(maxWrites, r.err, now)
          /\ last' = Call("Post.update", id, r.err)
  /\ UNCHANGED <<boards, boardNextId, postNextId, repoVars, exc, mockFindOne>>

PostRemoveWithin(maxWrites, maxTime, id) ==
  /\ CanWriteWithin(maxWrites, HasActive(posts, id))
  /\ \E now \in NowWithin(maxTime, PostFindOne(posts, id).err = "none") :
       LET r == PostRemoveOp(posts, id, now)
       IN /\ posts' = r.posts
          /\ WroteWithin(maxWrites, r.err, now)
          /\ last' = Call("Post.remove", id, r.err)
  /\ UNCHANGED <<boards, boardNextId, postNextId, repoVars, exc, mockFindOne>>

BoardCreate(title, description) ==
  BoardCreateWithin(MaxBoards, MaxWrites, MaxTime, title, description)

BoardFindAllCall ==
  /\ last' = Call("Board.findAll", 0, "none")
  /\ UNCHANGED <<boards, boardNextId, memVars, repoVars, clock, writes, exc, mockFindOne>>

\* findOne that removes the board it returns from the array
BoardFindOneCallTake(id) ==
  /\ LET r == BoardFindOne(boards, id)
     IN /\ last' = Call("Board.findOne", id, r.err)
        /\ boards' = IF r.err = "none"
                     THEN SubSeq(boards, 1, r.idx - 1) \o SubSeq(boards, r.idx + 1, Len(boards))
                     ELSE boards
  /\ UNCHANGED <<boardNextId, memVars, repoVars, clock, writes, exc, mockFindOne>>

BoardFindOneCall(id) ==
  /\ LET r == BoardFindOne(boards, id)
     IN last' = Call("Board.findOne", id, r.err)
  /\ UNCHANGED <<boards, boardNextId, memVars, repoVars, clock, writes, exc, mockFindOne>>

BoardUpdate(id, title, description) ==
  BoardUpdateWithin(MaxWrites, MaxTime, id, title, description)

\* remove that cascades the soft-delete to the posts of the board
BoardRemoveCascade(id) ==
  /\ CanWrite(HasActive(boards, id))
  /\ \E now \in Now(BoardFindOne(boards, id).err = "none") :
       LET r == BoardRemoveOp(boards, id, now)
       IN /\ boards' = r.boards
          /\ Wrote(r.err, now)
          /\ last' = Call("Board.remove", id, r.err)
          /\ posts' = IF r.err # "none" THEN posts
                      ELSE [i \in 1..Len(posts) |->
                              IF posts[i].boardId = id /\ posts[i].deletedAt = NULL
                              THEN [posts[i] EXCEPT !.deletedAt = now]
                              ELSE posts[i]]
  /\ UNCHANGED <<boardNextId, postNextId, repoVars, exc, mockFindOne>>

BoardRemove(id) ==
  BoardRemoveWithin(MaxWrites, MaxTime, id)

\* create that also stamps updatedAt of the board it checked
PostCreateTouchBoard(boardId, title, content) ==
  /\ postNextId <= MaxPosts
  /\ CanWrite(HasActive(boards, boardId))
  /\ \E now \in Now(BoardFindOne(boards, boardId).err = "none") :
       LET r == PostCreateOp(posts, postNextId, boards, boardId, title, content, now)
           f == BoardFindOne(boards, boardId)
       IN /\ posts' = r.posts
          /\ postNextId' = r.nextId
          /\ boards' = IF r.err = "none"
                       THEN [boards EXCEPT ![f.idx].updatedAt = now]
                       ELSE boards
          /\ Wrote(r.err, now)
          /\ last' = Call("Post.create", boardId, r.err)
  /\ UNCHANGED <<boardNextId, repoVars, exc, mockFindOne>>

PostCreate(boardId, title, content) ==
  PostCreateWithin(MaxPosts, MaxWrites, MaxTime, boardId, title, content)

PostFindAllCall(boardId) ==
  /\ last' = Call("Post.findAll", boardId, "none")
  /\ UNCHANGED <<boards, boardNextId, memVars, repoVars, clock, writes, exc, mockFindOne>>

PostFindOneCall(id) ==
  /\ LET r == PostFindOne(posts, id)
     IN last' = Call("Post.findOne", id, r.err)
  /\ UNCHANGED <<boards, boardNextId, memVars, repoVars, clock, writes, exc, mockFindOne>>

PostUpdate(id, title, content) ==
  PostUpdateWithin(MaxWrites, MaxTime, id, title, content)

PostRemove(id) ==
  PostRemoveWithin(MaxWrites, MaxTime, id)

Next ==
  \/ \E title \in CreateTitles, description \in CreateBodies :
       BoardCreate(title, description)
  \/ BoardFindAllCall
  \/ \E id \in BoardIds : BoardFindOneCall(id)
  \/ \E id \in BoardIds :
       \E title \in DtoFor(HasActive(boards, id), UpdateTitles),
          description \in DtoFor(HasActive(boards, id), UpdateBodies) :
            BoardUpdate(id, title, description)
  \/ \E id \in BoardIds : BoardRemove(id)
  \/ \E boardId \in BoardIds, title \in CreateTitles, content \in CreateBodies :
       PostCreate(boardId, title, content)
  \/ \E boardId \in BoardIds \cup {NoFilter} : PostFindAllCall(boardId)
  \/ \E id \in PostIds : PostFindOneCall(id)
  \/ \E id \in PostIds :
       \E title \in DtoFor(HasActive(posts, id), UpdateTitles),
          content \in DtoFor(HasActive(posts, id), UpdateBodies) :
            PostUpdate(id, title, content)
  \/ \E id \in PostIds : PostRemove(id)

Spec == Init /\ [][Next]_vars

(* ---------------- listing three records ---------------- *)
\* identifiers asked for where up to MaxListed records of a store exist
ListIds == 1..MaxListed

\* the calls that decide what findAll lists and in which order: records are
\* created, renamed (an update with a title only) and soft-deleted, up to
\* MaxListed boards and MaxListed posts, both stores are listed at any time,
\* and a board is read back as the BoardService test does after its update
NextOrder ==
  \/ \E title \in CreateTitles, description \in CreateBodies :
       BoardCreateWithin(MaxListed, MaxListWrites, MaxListTime, title, description)
  \/ BoardFindAllCall
  \/ \E id \in ListIds : BoardFindOneCall(id)
  \/ \E id \in ListIds :
       \E title \in UpdateTitles \ {Absent, NullV} :
         BoardUpdateWithin(MaxListWrites, MaxListTime, id, title, Absent)
  \/ \E id \in ListIds : BoardRemoveWithin(MaxListWrites, MaxListTime, id)
  \/ \E boardId \in ListIds, title \in CreateTitles, content \in CreateBodies :
       PostCreateWithin(MaxListed, MaxListWrites, MaxListTime, boardId, title, content)
  \/ \E boardId \in ListIds \cup {NoFilter} : PostFindAllCall(boardId)
  \/ \E id \in ListIds :
       \E title \in UpdateTitles \ {Absent, NullV} :
         PostUpdateWithin(MaxListWrites, MaxListTime, id, title, Absent)
  \/ \E id \in ListIds : PostRemoveWithin(MaxListWrites, MaxListTime, id)

SpecOrder == Init /\ [][NextOrder]_vars

(* ---------------- GET /boards/:id/posts ---------------- *)
\* BoardController.searchPostsByBoard: `this.boardService.searchPostsByBoard`
\* is undefined, BoardService has no such method, so calling it throws a
\* TypeError before any store is read
BoardSearchPostsByBoardCall(id) ==
  /\ last' = Call("Board.searchPostsByBoard", id, "TypeError")
  /\ UNCHANGED <<boards, boardNextId, memVars, repoVars, clock, writes, exc, mockFindOne>>

\* the application with the in-memory PostService and the route
\* GET /boards/:id/posts: every call of Next, and the query at any time
NextQuery ==
  \/ Next
  \/ \E id \in BoardIds : BoardSearchPostsByBoardCall(id)

SpecQuery == Init /\ [][NextQuery]_vars

(* ---------------- repository-backed calls ---------------- *)
\* create up to `await this.boardService.findOne(...)`
RepoCreateCheck(r, boardId, title, content) ==
  /\ reqs[r] = Idle
  /\ rowNextId <= MaxPosts
  /\ LET f == BoardFindOne(boards, boardId)
     IN IF f.err # "none"
        THEN /\ reqs' = reqs
             /\ last' = Call("Repo.create", boardId, "BadRequest")
        ELSE /\ reqs' = [reqs EXCEPT ![r] = Suspended("create", boardId, title, content, <<>>)]
             /\ last' = Call("Repo.create.check", boardId, "none")
  /\ Began(BoardFindOne(boards, boardId).err = "none")
  /\ UNCHANGED <<boards, boardNextId, memVars, rows, rowNextId, clock, exc, mockFindOne>>

\* create that looks the board up again before it saves
RepoCreateSaveRechecked(r) ==
  /\ reqs[r].st = "create"
  /\ \E now \in Now(TRUE) :
       LET q == reqs[r]
           w == RepoInsert(rows, rowNextId, q.id, q.title, q.content, now)
           ok == BoardFindOne(boards, q.id).err = "none"
       IN /\ rows' = IF ok THEN w.rows ELSE rows
          /\ rowNextId' = IF ok THEN w.nextId ELSE rowNextId
          /\ clock' = now
          /\ last' = Call("Repo.create", q.id, IF ok THEN "none" ELSE "BadRequest")
  /\ reqs' = [reqs EXCEPT ![r] = Idle]
  /\ UNCHANGED <<boards, boardNextId, memVars, writes, exc, mockFindOne>>

\* create from postRepository.create(...) to the end of `await save(post)`
RepoCreateSave(r) ==
  /\ reqs[r].st = "create"
  /\ \E now \in Now(TRUE) :
       LET q == reqs[r]
           w == RepoInsert(rows, rowNextId, q.id, q.title, q.content, now)
       IN /\ rows' = w.rows
          /\ rowNextId' = w.nextId
          /\ clock' = now
          /\ last' = Call("Repo.create", q.id, "none")
  /\ reqs' = [reqs EXCEPT ![r] = Idle]
  /\ UNCHANGED <<boards, boardNextId, memVars, writes, exc, mockFindOne>>

RepoFindAllCall(board_id) ==
  /\ last' = Call("Repo.findAll", board_id, "none")
  /\ UNCHANGED <<boards, boardNextId, memVars, repoVars, clock, writes, exc, mockFindOne>>

RepoFindOneCall(id) ==
  /\ last' = Call("Repo.findOne", id, RepoFindOne(rows, id).err)
  /\ UNCHANGED <<boards, boardNextId, memVars, repoVars, clock, writes, exc, mockFindOne>>

\* update up to `await this.findOne(id)`; Object.assign runs as soon as the
\* call resumes and before anything else can run
RepoUpdateFind(r, id, title, content, board_id) ==
  /\ reqs[r] = Idle
  /\ LET f == RepoFindOne(rows, id)
     IN IF f.err # "none"
        THEN /\ reqs' = reqs
             /\ last' = Call("Repo.update", id, f.err)
        ELSE /\ reqs' = [reqs EXCEPT ![r] =
                           Suspended("update", id, title, content,
                                     <<ObjectAssign(f.ret[1], title, content, board_id)>>)]
             /\ last' = Call("Repo.update.find", id, "none")
  /\ Began(RepoFindOne(rows, id).err = "none")
  /\ UNCHANGED <<boards, boardNextId, memVars, rows, rowNextId, clock, exc, mockFindOne>>

\* update: `await this.postRepository.save(post)`
RepoUpdateSave(r) ==
  /\ reqs[r].st = "update"
  /\ \E now \in Now(TRUE) :
       \E w \in RepoSave(rows, reqs[r].post[1], now) :
          /\ rows' = w.rows
          /\ clock' = now
          /\ last' = Call("Repo.update", reqs[r].id, w.err)
  /\ reqs' = [reqs EXCEPT ![r] = Idle]
  /\ UNCHANGED <<boards, boardNextId, memVars, rowNextId, writes, exc, mockFindOne>>

\* remove up to `await this.findOne(id)`
RepoRemoveFind(r, id) ==
  /\ reqs[r] = Idle
  /\ LET f == RepoFindOne(rows, id)
     IN IF f.err # "none"
        THEN /\ reqs' = reqs
             /\ last' = Call("Repo.remove", id, f.err)
        ELSE /\ reqs' = [reqs EXCEPT ![r] =
                           Suspended("remove", id, Absent, Absent, f.ret)]
             /\ last' = Call("Repo.remove.find", id, "none")
  /\ Began(RepoFindOne(rows, id).err = "none")
  /\ UNCHANGED <<boards, boardNextId, memVars, rows, rowNextId, clock, exc, mockFindOne>>

\* remove: `await this.postRepository.softRemove(post)`
RepoRemoveSoft(r) ==
  /\ reqs[r].st = "remove"
  /\ \E now \in Now(TRUE) :
       /\ rows' = RepoSoftRemove(rows, reqs[r].post[1], now)
       /\ clock' = now
       /\ last' = Call("Repo.remove", reqs[r].id, "none")
  /\ reqs' = [reqs EXCEPT ![r] = Idle]
  /\ UNCHANGED <<boards, boardNextId, memVars, rowNextId, writes, exc, mockFindOne>>

\* the application with the repository-backed PostService: BoardService as
\* above, posts in the table
NextRepo ==
  \/ \E title \in CreateTitles, description \in CreateBodies :
       BoardCreate(title, description)
  \/ BoardFindAllCall
  \/ \E id \in BoardIds : BoardFindOneCall(id)
  \/ \E id \in BoardIds :
       \E title \in DtoFor(HasActive(boards, id), UpdateTitles),
          description \in DtoFor(HasActive(boards, id), UpdateBodies) :
            BoardUpdate(id, title, description)
  \/ \E id \in BoardIds : BoardRemove(id)
  \/ \E r \in 1..MaxReqs, boardId \in BoardIds, title \in CreateTitles,
        content \in CreateBodies : RepoCreateCheck(r, boardId, title, content)
  \/ \E r \in 1..MaxReqs : RepoCreateSave(r)
  \/ \E board_id \in BoardIds \cup {NoFilter} : RepoFindAllCall(board_id)
  \/ \E id \in PostIds : RepoFindOneCall(id)
  \/ \E r \in 1..MaxReqs, id \in PostIds :
       \E title \in DtoFor(HasActive(rows, id), UpdateTitles),
          content \in DtoFor(HasActive(rows, id), UpdateBodies),
          board_id \in IF HasActive(rows, id) THEN UpdateBoardRefs ELSE {NoRef} :
            RepoUpdateFind(r, id, title, content, board_id)
  \/ \E r \in 1..MaxReqs : RepoUpdateSave(r)
  \/ \E r \in 1..MaxReqs, id \in PostIds : RepoRemoveFind(r, id)
  \/ \E r \in 1..MaxReqs : RepoRemoveSoft(r)

\* the calls that take part in the creation of a post: boards are created
\* and removed while repository-backed creates are in flight
NextCreate ==
  \/ \E title \in CreateTitles, description \in CreateBodies :
       BoardCreate(title, description)
  \/ \E id \in BoardIds : BoardRemove(id)
  \/ \E r \in 1..MaxReqs, boardId \in BoardIds, title \in CreateTitles,
        content \in CreateBodies : RepoCreateCheck(r, boardId, title, content)
  \/ \E r \in 1..MaxReqs : RepoCreateSave(r)
  \/ \E board_id \in BoardIds \cup {NoFilter} : RepoFindAllCall(board_id)

SpecCreate == Init /\ [][NextCreate]_vars

SpecRepo == Init /\ [][NextRepo]_vars

(* ---------------- PostService over a mocked BoardService ---------------- *)
\* what findOne of the mock can be set up to do: return a board, or throw
\* an error of some kind
LookupOutcomes == {"none", "NotFound", "ServiceUnavailable", "TypeError"}

\* boardService.findOne.mockReturnValue(...) / mockImplementation(...)
MockFindOne(outcome) ==
  /\ mockFindOne' = outcome
  /\ last' = Call("mock", 0, "none")
  /\ UNCHANGED <<boards, boardNextId, memVars, repoVars, clock, writes, exc>>

\* PostService.create with the mock injected as its BoardService
PostCreateMocked(boardId, title, content) ==
  /\ postNextId <= MaxPosts
  /\ \E now \in Now(mockFindOne = "none") :
       LET r == PostCreateGiven(posts, postNextId, mockFindOne, boardId, title,
                                content, now)
       IN /\ posts' = r.posts
          /\ postNextId' = r.nextId
          /\ Wrote(r.err, now)
          /\ last' = Call("Post.create", boardId, r.err)
  /\ UNCHANGED <<boards, boardNextId, repoVars, exc, mockFindOne>>

\* the in-memory PostService as its unit test drives it
NextMock ==
  \/ \E outcome \in LookupOutcomes : MockFindOne(outcome)
  \/ \E boardId \in BoardIds, title \in CreateTitles, content \in CreateBodies :
       PostCreateMocked(boardId, title, content)
  \/ \E boardId \in BoardIds \cup {NoFilter} : PostFindAllCall(boardId)
  \/ \E id \in PostIds : PostFindOneCall(id)
  \/ \E id \in PostIds :
       \E title \in DtoFor(HasActive(posts, id), UpdateTitles),
          content \in DtoFor(HasActive(posts, id), UpdateBodies) :
            PostUpdate(id, title, content)
  \/ \E id \in PostIds : PostRemove(id)

SpecMock == Init /\ [][NextMock]_vars

\* the calls of the unit test's create, findAll and findOne cases: the
\* lookup is set up, and posts are created, listed, read and removed
NextMockCreate ==
  \/ \E outcome \in LookupOutcomes : MockFindOne(outcome)
  \/ \E boardId \in BoardIds, title \in CreateTitles, content \in CreateBodies :
       PostCreateMocked(boardId, title, content)
  \/ \E boardId \in BoardIds \cup {NoFilter} : PostFindAllCall(boardId)
  \/ \E id \in PostIds : PostFindOneCall(id)
  \/ \E id \in PostIds : PostRemove(id)

SpecMockCreate == Init /\ [][NextMockCreate]_vars

(* ---------------- constructing exceptions ---------------- *)
\* everything but the clock and the exception constructed last
storeVars == <<boards, boardNextId, posts, postNextId, rows, rowNextId, reqs,
               writes, last, mockFindOne>>

\* the constructor ran at time now and built e
Constructed(e, now) ==
  /\ exc' = e
  /\ clock' = now
  /\ UNCHANGED storeVars

\* new BaseException(message, statusCode, errorCode): the base class is
\* exported and can be constructed with any status
NewBaseException(message, statusCode, errorCode) ==
  \E now \in Now(TRUE) :
    Constructed(BaseException("BaseException", message, statusCode, errorCode, now),
                now)

NewClientError(message, statusCode, errorCode) ==
  \E now \in Now(TRUE) :
    Constructed(ClientErrorException("ClientErrorException", message, statusCode,
                                     errorCode, now), now)

NewBadRequest(message, errorCode) ==
  \E now \in Now(TRUE) : Constructed(BadRequestException(message, errorCode, now), now)

NewUnauthorized(message, errorCode) ==
  \E now \in Now(TRUE) : Constructed(UnauthorizedException(message, errorCode, now), now)

NewForbidden(message, errorCode) ==
  \E now \in Now(TRUE) : Constructed(ForbiddenException(message, errorCode, now), now)

NewNotFound(message, errorCode) ==
  \E now \in Now(TRUE) : Constructed(NotFoundException(message, errorCode, now), now)

NewConflict(message, errorCode) ==
  \E now \in Now(TRUE) : Constructed(ConflictException(message, errorCode, now), now)

NewServerError(message, statusCode, errorCode) ==
  \E now \in Now(TRUE) :
    Constructed(ServerErrorException("ServerErrorException", message, statusCode,
                                     errorCode, now), now)

NewInternalServerError(message, errorCode) ==
  \E now \in Now(TRUE) :
    Constructed(InternalServerErrorException(message, errorCode, now), now)

NewNotImplemented(message, errorCode) ==
  \E now \in Now(TRUE) :
    Constructed(NotImplementedException(message, errorCode, now), now)

NewServiceUnavailable(message, errorCode) ==
  \E now \in Now(TRUE) :
    Constructed(ServiceUnavailableException(message, errorCode, now), now)

NewGatewayTimeout(message, errorCode) ==
  \E now \in Now(TRUE) :
    Constructed(GatewayTimeoutException(message, errorCode, now), now)

NextExc ==
  \/ \E message \in Messages, statusCode \in StatusCodes \ {NoStatus},
        errorCode \in ErrorCodes :
       NewBaseException(message, statusCode, errorCode)
  \/ \E message \in Messages, statusCode \in StatusCodes, errorCode \in ErrorCodes :
       NewClientError(message, statusCode, errorCode)
  \/ \E message \in OptionalMessages, errorCode \in ErrorCodes :
       NewBadRequest(message, errorCode)
  \/ \E message \in OptionalMessages, errorCode \in ErrorCodes :
       NewUnauthorized(message, errorCode)
  \/ \E message \in OptionalMessages, errorCode \in ErrorCodes :
       NewForbidden(message, errorCode)
  \/ \E message \in OptionalMessages, errorCode \in ErrorCodes :
       NewNotFound(message, errorCode)
  \/ \E message \in OptionalMessages, errorCode \in ErrorCodes :
       NewConflict(message, errorCode)
  \/ \E message \in Messages, statusCode \in StatusCodes, errorCode \in ErrorCodes :
       NewServerError(message, statusCode, errorCode)
  \/ \E message \in OptionalMessages, errorCode \in ErrorCodes :
       NewInternalServerError(message, errorCode)
  \/ \E message \in OptionalMessages, errorCode \in ErrorCodes :
       NewNotImplemented(message, errorCode)
  \/ \E message \in OptionalMessages, errorCode \in ErrorCodes :
       NewServiceUnavailable(message, errorCode)
  \/ \E message \in OptionalMessages, errorCode \in ErrorCodes :
       NewGatewayTimeout(message, errorCode)

SpecExc == Init /\ [][NextExc]_vars

\* the counters stay within the bounds of the module (MaxBoards, MaxPosts,
\* MaxTime, MaxWrites)
TypeOK ==
  /\ boardNextId \in 1..(MaxBoards + 1)
  /\ postNextId \in 1..(MaxPosts + 1)
  /\ clock \in 1..MaxTime
  /\ writes \in 0..MaxWrites
  /\ Len(boards) = boardNextId - 1
  /\ Len(posts) = postNextId - 1

(* ---------------- vocabulary of the properties ---------------- *)
\* whether an id belongs to a soft-deleted record
HasDeleted(arr, id) == \E r \in Range(arr) : r.id = id /\ r.deletedAt # NULL

\* position in arr of the active record with the id (the record a successful
\* update or remove of that id works on)
PosOf(arr, id) == CHOOSE i \in 1..Len(arr) : arr[i].id = id /\ arr[i].deletedAt = NULL
\* every position except k is the same record in both arrays
SameExcept(old, new, k) ==
  /\ Len(new) = Len(old)
  /\ \A i \in 1..Len(old) : i # k => new[i] = old[i]

(* ---------------- C1 ---------------- *)
\* C1: a Post.create call for board id B raises BadRequest exactly when the
\* Board store holds no active record with id B when it is called (never
\* created, or soft-deleted); a successful call appends a post with boardId B.
C1_PostCreateBadRequestIffNoActiveBoard ==
  [][last'.op = "Post.create" =>
       /\ last'.err \in {"none", "BadRequest"}
       /\ (last'.err = "BadRequest") <=> ~HasActive(boards, last'.id)
       /\ last'.err = "BadRequest" => posts' = posts
       /\ last'.err = "none" =>
            /\ Len(posts') = Len(posts) + 1
            /\ posts'[Len(posts')].boardId = last'.id]_vars

\* a Post.create was refused for a board that exists but is soft-deleted
C1_Witness ==
  /\ last.op = "Post.create"
  /\ last.err = "BadRequest"
  /\ HasDeleted(boards, last.id)

(* ---------------- C2 ---------------- *)
\* C2: in both stores findAll returns exactly the records whose deletedAt is
\* null, findOne(id) returns a record only if it has that id and a null
\* deletedAt, and findOne raises NotFound for an id that is unassigned or
\* soft-deleted.
C2_SoftDeleteExclusion ==
  /\ Range(BoardFindAll(boards)) = ActiveOf(boards)
  /\ Len(BoardFindAll(boards)) = Cardinality(ActiveOf(boards))
  /\ Range(PostFindAll(posts, NoFilter)) = ActiveOf(posts)
  /\ Len(PostFindAll(posts, NoFilter)) = Cardinality(ActiveOf(posts))
  /\ \A id \in BoardIds :
       LET r == BoardFindOne(boards, id)
       IN /\ r.err = "none" =>
               /\ r.ret[1] \in ActiveOf(boards)
               /\ r.ret[1].id = id
          /\ ~HasActive(boards, id) => r.err = "NotFound" /\ r.ret = <<>>
  /\ \A id \in PostIds :
       LET r == PostFindOne(posts, id)
       IN /\ r.err = "none" =>
               /\ r.ret[1] \in ActiveOf(posts)
               /\ r.ret[1].id = id
          /\ ~HasActive(posts, id) => r.err = "NotFound" /\ r.ret = <<>>
  /\ last.op = "Board.findOne" =>
       ((last.err = "NotFound") <=> ~HasActive(boards, last.id))
  /\ last.op = "Post.findOne" =>
       ((last.err = "NotFound") <=> ~HasActive(posts, last.id))

\* findOne was called for a soft-deleted post and raised NotFound, while
\* another post is still listed
C2_Witness ==
  /\ last.op = "Post.findOne"
  /\ last.err = "NotFound"
  /\ HasDeleted(posts, last.id)
  /\ ActiveOf(posts) # {}

(* ---------------- C3 ---------------- *)
\* C3: BoardService.remove changes no post: every post that was active before
\* is returned unchanged by Post.findOne and Post.findAll afterwards, and a
\* new Post.create for the removed board id raises BadRequest.
C3_BoardRemoveLeavesPosts ==
  [][last'.op = "Board.remove" =>
       /\ posts' = posts
       /\ postNextId' = postNextId
       /\ last'.err = "none" =>
            /\ \A p \in ActiveOf(posts) :
                 /\ PostFindOne(posts', p.id).ret = <<p>>
                 /\ p \in Range(PostFindAll(posts', NoFilter))
                 /\ p \in Range(PostFindAll(posts', p.boardId))
            /\ \A title \in CreateTitles, content \in CreateBodies :
                 PostCreateOp(posts', postNextId', boards', last'.id,
                              title, content, clock').err = "BadRequest"]_vars

\* a board that has an active post was soft-deleted
C3_Witness ==
  /\ last.op = "Board.remove"
  /\ last.err = "none"
  /\ \E p \in ActiveOf(posts) : p.boardId = last.id

(* ---------------- C4 ---------------- *)
\* C4: while a store has seen no remove, its i-th created record has
\* identifier i, in the Board store and in the Post store.
C4_SequentialIds ==
  /\ ActiveOf(boards) = Range(boards) =>
       \A i \in 1..Len(boards) : boards[i].id = i
  /\ ActiveOf(posts) = Range(posts) =>
       \A i \in 1..Len(posts) : posts[i].id = i

\* two boards and two posts were created and nothing was removed
C4_Witness ==
  /\ Len(boards) = 2 /\ ActiveOf(boards) = Range(boards)
  /\ Len(posts) = 2 /\ ActiveOf(posts) = Range(posts)
  /\ last.op = "Post.create" /\ last.err = "none"

(* ---------------- C5 ---------------- *)
\* C5: identifiers are never reused: all records of a store, active and
\* soft-deleted, have distinct identifiers, and a record created later has an
\* identifier greater than every identifier assigned before it.
C5_IdsNeverReused ==
  /\ \A i, j \in 1..Len(boards) : i < j => boards[i].id < boards[j].id
  /\ \A i \in 1..Len(boards) : boards[i].id < boardNextId
  /\ \A i, j \in 1..Len(posts) : i < j => posts[i].id < posts[j].id
  /\ \A i \in 1..Len(posts) : posts[i].id < postNextId

\* a board was created after another board had been soft-deleted
C5_Witness ==
  /\ last.op = "Board.create"
  /\ Len(boards) = 2
  /\ boards[1].deletedAt # NULL
  /\ boards[2].deletedAt = NULL

(* ---------------- C6 ---------------- *)
\* C6: Post.findAll(B) returns exactly the active posts whose boardId is B,
\* so none of the posts of another board and no soft-deleted post, and
\* Post.findAll() returns every active post of every board.
C6_BoardScopedFilter ==
  /\ \A b \in BoardIds :
       /\ Range(PostFindAll(posts, b)) = {p \in ActiveOf(posts) : p.boardId = b}
       /\ Len(PostFindAll(posts, b)) =
            Cardinality({p \in ActiveOf(posts) : p.boardId = b})
       /\ \A c \in BoardIds \ {b} :
            \A p \in Range(PostFindAll(posts, b)) : p.boardId # c
  /\ Range(PostFindAll(posts, NoFilter)) = ActiveOf(posts)

\* findAll was called for a board while both boards have an active post
C6_Witness ==
  /\ last.op = "Post.findAll"
  /\ last.id # NoFilter
  /\ \E p, q \in ActiveOf(posts) : p.boardId = last.id /\ q.boardId # last.id

(* ---------------- C7 ---------------- *)
\* C7: an update that supplies only title changes only title and updatedAt of
\* the target record, and an update that supplies only description / content
\* changes only that field and updatedAt; no other record changes.  (Each case
\* reads: the step has that effect, or it is not such an update.)
C7_PartialUpdate ==
  [][/\ last'.op = "Board.update" /\ last'.err = "none" =>
          LET id == last'.id
              k == PosOf(boards, id)
          IN /\ \A v \in UpdateTitles \ {Absent, NullV} :
                  \/ /\ SameExcept(boards, boards', k)
                     /\ boards'[k] = [boards[k] EXCEPT !.title = v,
                                                       !.updatedAt = clock']
                  \/ ~BoardUpdate(id, v, Absent)
             /\ \A v \in UpdateBodies \ {Absent, NullV} :
                  \/ /\ SameExcept(boards, boards', k)
                     /\ boards'[k] = [boards[k] EXCEPT !.description = v,
                                                       !.updatedAt = clock']
                  \/ ~BoardUpdate(id, Absent, v)
     /\ last'.op = "Post.update" /\ last'.err = "none" =>
          LET id == last'.id
              k == PosOf(posts, id)
          IN /\ \A v \in UpdateTitles \ {Absent, NullV} :
                  \/ /\ SameExcept(posts, posts', k)
                     /\ posts'[k] = [posts[k] EXCEPT !.title = v,
                                                       !.updatedAt = clock']
                  \/ ~PostUpdate(id, v, Absent)
             /\ \A v \in UpdateBodies \ {Absent, NullV} :
                  \/ /\ SameExcept(posts, posts', k)
                     /\ posts'[k] = [posts[k] EXCEPT !.content = v,
                                                     !.updatedAt = clock']
                  \/ ~PostUpdate(id, Absent, v)]_vars

\* a board was updated with a title only, at a later time than its creation,
\* while a second board exists
C7_Witness ==
  /\ last.op = "Board.update"
  /\ last.err = "none"
  /\ Len(boards) = 2
  /\ \E b \in ActiveOf(boards) :
       /\ b.id = last.id
       /\ b.title = "t2"
       /\ b.description = "c1"
       /\ b.updatedAt > b.createdAt

(* ---------------- C8 ---------------- *)
\* position in rs of the row with the id, soft-deleted or not
RowOf(rs, id) == CHOOSE i \in 1..Len(rs) : rs[i].id = id

\* C8, the in-memory part: in BoardService.update and in the in-memory
\* PostService.update a property supplied as null leaves the stored field as
\* it was.
C8_InMemoryNullKeepsStoredValue ==
  [][/\ last'.op = "Board.update" /\ last'.err = "none" =>
          LET id == last'.id
              k == PosOf(boards, id)
          IN /\ \A v \in UpdateBodies :
                  BoardUpdate(id, NullV, v) => boards'[k].title = boards[k].title
             /\ \A v \in UpdateTitles :
                  BoardUpdate(id, v, NullV) =>
                    boards'[k].description = boards[k].description
     /\ last'.op = "Post.update" /\ last'.err = "none" =>
          LET id == last'.id
              k == PosOf(posts, id)
          IN /\ \A v \in UpdateBodies :
                  PostUpdate(id, NullV, v) => posts'[k].title = posts[k].title
             /\ \A v \in UpdateTitles :
                  PostUpdate(id, v, NullV) => posts'[k].content = posts[k].content]_vars

\* C8 as stated: in every update implementation, the repository-backed
\* PostService.update included, a property supplied as null is treated like
\* an absent one: the update goes through as it would without the property
\* and the stored title / description / content keeps its previous value.
C8_ExplicitNullIsNoChange ==
  [][/\ last'.op = "Board.update" /\ last'.err = "none" =>
          LET id == last'.id
              k == PosOf(boards, id)
          IN /\ \A v \in UpdateBodies :
                  BoardUpdate(id, NullV, v) => boards'[k].title = boards[k].title
             /\ \A v \in UpdateTitles :
                  BoardUpdate(id, v, NullV) =>
                    boards'[k].description = boards[k].description
     /\ last'.op = "Post.update" /\ last'.err = "none" =>
          LET id == last'.id
              k == PosOf(posts, id)
          IN /\ \A v \in UpdateBodies :
                  PostUpdate(id, NullV, v) => posts'[k].title = posts[k].title
             /\ \A v \in UpdateTitles :
                  PostUpdate(id, v, NullV) => posts'[k].content = posts[k].content
     /\ \A r \in 1..MaxReqs :
          RepoUpdateSave(r) =>
            LET k == RowOf(rows, reqs[r].id)
            IN /\ reqs[r].title = NullV =>
                    last'.err = "none" /\ rows'[k].title = rows[k].title
               /\ reqs[r].content = NullV =>
                    last'.err = "none" /\ rows'[k].content = rows[k].content]_vars

(* ---------------- C9 ---------------- *)
\* C9: every successful update sets updatedAt of its target to the time of the
\* call, whether or not a field changed: the new updatedAt is at least the
\* clock before the call, at most the clock after it, and at least the
\* previous updatedAt.
C9_UpdateTouchesUpdatedAt ==
  [][/\ last'.op = "Board.update" /\ last'.err = "none" =>
          LET k == PosOf(boards, last'.id)
          IN /\ boards'[k].id = last'.id
             /\ clock <= boards'[k].updatedAt
             /\ boards'[k].updatedAt <= clock'
             /\ boards'[k].updatedAt >= boards[k].updatedAt
     /\ last'.op = "Post.update" /\ last'.err = "none" =>
          LET k == PosOf(posts, last'.id)
          IN /\ posts'[k].id = last'.id
             /\ clock <= posts'[k].updatedAt
             /\ posts'[k].updatedAt <= clock'
             /\ posts'[k].updatedAt >= posts[k].updatedAt]_vars

\* an update that changed no field moved updatedAt past createdAt
C9_Witness ==
  /\ last.op = "Board.update"
  /\ last.err = "none"
  /\ \E b \in ActiveOf(boards) :
       /\ b.id = last.id
       /\ b.title = "t1"
       /\ b.description = "c1"
       /\ b.updatedAt > b.createdAt

(* ---------------- C10 ---------------- *)
\* C10 as stated: every operation that changes a record, update and remove
\* alike, sets the updatedAt of that record to the time of the operation.
C10_EveryMutationTouchesUpdatedAt ==
  [][/\ last'.op \in {"Board.update", "Board.remove"} /\ last'.err = "none" =>
          boards'[PosOf(boards, last'.id)].updatedAt = clock'
     /\ last'.op \in {"Post.update", "Post.remove"} /\ last'.err = "none" =>
          posts'[PosOf(posts, last'.id)].updatedAt = clock']_vars

\* C10 amended: a successful update sets updatedAt of its target to the time
\* of the call; a successful remove sets deletedAt to the time of the call and
\* leaves updatedAt as it was.
C10_UpdateTouchesRemoveDoesNot ==
  [][/\ last'.op = "Board.update" /\ last'.err = "none" =>
          boards'[PosOf(boards, last'.id)].updatedAt = clock'
     /\ last'.op = "Post.update" /\ last'.err = "none" =>
          posts'[PosOf(posts, last'.id)].updatedAt = clock'
     /\ last'.op = "Board.remove" /\ last'.err = "none" =>
          LET k == PosOf(boards, last'.id)
          IN /\ boards'[k].deletedAt = clock'
             /\ boards'[k].updatedAt = boards[k].updatedAt
     /\ last'.op = "Post.remove" /\ last'.err = "none" =>
          LET k == PosOf(posts, last'.id)
          IN /\ posts'[k].deletedAt = clock'
             /\ posts'[k].updatedAt = posts[k].updatedAt]_vars

\* a post was soft-deleted later than its last update
C10_Witness ==
  /\ last.op = "Post.remove"
  /\ last.err = "none"
  /\ \E p \in Range(posts) :
       /\ p.id = last.id
       /\ p.deletedAt # NULL
       /\ p.deletedAt > p.updatedAt

(* ---------------- C11 ---------------- *)
\* C11: a successful remove sets deletedAt of its target to the time of the
\* call and nothing else: the array keeps its length and order, the target
\* keeps its position and all its other fields, every other record, the other
\* store and both counters are unchanged.
C11_RemoveInPlace ==
  [][/\ last'.op = "Board.remove" /\ last'.err = "none" =>
          LET k == PosOf(boards, last'.id)
          IN /\ boards' = [boards EXCEPT ![k].deletedAt = clock']
             /\ clock' >= clock
             /\ boards'[k].deletedAt # NULL
             /\ UNCHANGED <<boardNextId, posts, postNextId>>
     /\ last'.op = "Post.remove" /\ last'.err = "none" =>
          LET k == PosOf(posts, last'.id)
          IN /\ posts' = [posts EXCEPT ![k].deletedAt = clock']
             /\ clock' >= clock
             /\ posts'[k].deletedAt # NULL
             /\ UNCHANGED <<postNextId, boards, boardNextId>>]_vars

\* the first of two boards was soft-deleted after the second was created; it
\* is still the first element of the array
C11_Witness ==
  /\ last.op = "Board.remove"
  /\ last.err = "none"
  /\ last.id = 1
  /\ Len(boards) = 2
  /\ boards[1].id = 1
  /\ boards[1].deletedAt # NULL
  /\ boards[2].deletedAt = NULL

(* ---------------- C12 ---------------- *)
\* C12: update and remove raise NotFound exactly when the id has no active
\* record (never assigned, or soft-deleted), which is when findOne raises it,
\* and a call that raised NotFound changed no record and no counter.
C12_NotFoundLeavesStateUnchanged ==
  [][/\ last'.op \in {"Board.update", "Board.remove"} =>
          /\ last'.err \in {"none", "NotFound"}
          /\ (last'.err = "NotFound") <=> ~HasActive(boards, last'.id)
          /\ last'.err = "NotFound" =>
               /\ BoardFindOne(boards, last'.id).err = "NotFound"
               /\ UNCHANGED <<boards, boardNextId, posts, postNextId>>
     /\ last'.op \in {"Post.update", "Post.remove"} =>
          /\ last'.err \in {"none", "NotFound"}
          /\ (last'.err = "NotFound") <=> ~HasActive(posts, last'.id)
          /\ last'.err = "NotFound" =>
               /\ PostFindOne(posts, last'.id).err = "NotFound"
               /\ UNCHANGED <<boards, boardNextId, posts, postNextId>>]_vars

\* an update was refused for a post that exists but is soft-deleted
C12_Witness ==
  /\ last.op = "Post.update"
  /\ last.err = "NotFound"
  /\ HasDeleted(posts, last.id)

(* ---------------- C13 ---------------- *)
\* C13: a Post.create that raised BadRequest appended no post, consumed no
\* post identifier and changed nothing in the Board store; a successful
\* Post.create returns the identifier that follows the one of the last post
\* created before it (1 for the first), however many creates failed between.
C13_FailedPostCreateHasNoEffect ==
  [][last'.op = "Post.create" =>
       /\ last'.err = "BadRequest" =>
            UNCHANGED <<posts, postNextId, boards, boardNextId>>
       /\ last'.err = "none" =>
            /\ posts' = Append(posts, posts'[Len(posts')])
            /\ posts'[Len(posts')].id
                 = IF posts = <<>> THEN 1 ELSE posts[Len(posts)].id + 1]_vars

\* a Post.create was refused after an earlier one had succeeded, and the
\* store still holds just that one post and the identifier after it
C13_Witness ==
  /\ last.op = "Post.create"
  /\ last.err = "BadRequest"
  /\ Len(posts) = 1
  /\ postNextId = 2

(* ---------------- C14 ---------------- *)
\* the identifiers of a sequence of records grow strictly from left to right
Increasing(seq) == \A i, j \in 1..Len(seq) : i < j => seq[i].id < seq[j].id

\* the identifiers of a sequence of records, in its order
IdsOf(seq) == [i \in 1..Len(seq) |-> seq[i].id]
\* a sequence of identifiers with one identifier left out
Without(ids, id) == SelectSeq(ids, LAMBDA x : x # id)

\* C14: Board.findAll and Post.findAll, with or without the boardId filter,
\* return their records in creation order: after every step that changes a
\* store (the stores start empty) the identifiers of each listing of it are
\* strictly increasing; an update leaves the identifiers
\* of every listing as they were, and a soft-delete leaves them as they were
\* with the removed identifier left out, the rest in the same order.
C14_FindAllInCreationOrder ==
  [][/\ boards' # boards => Increasing(BoardFindAll(boards'))
     /\ posts' # posts =>
          \A boardId \in ListIds \cup {NoFilter} :
            Increasing(PostFindAll(posts', boardId))
     /\ last'.op = "Board.update" =>
          IdsOf(BoardFindAll(boards')) = IdsOf(BoardFindAll(boards))
     /\ last'.op = "Board.remove" /\ last'.err = "none" =>
          IdsOf(BoardFindAll(boards')) = Without(IdsOf(BoardFindAll(boards)), last'.id)
     /\ last'.op = "Post.update" =>
          \A boardId \in ListIds \cup {NoFilter} :
            IdsOf(PostFindAll(posts', boardId)) = IdsOf(PostFindAll(posts, boardId))
     /\ last'.op = "Post.remove" /\ last'.err = "none" =>
          \A boardId \in ListIds \cup {NoFilter} :
            IdsOf(PostFindAll(posts', boardId))
              = Without(IdsOf(PostFindAll(posts, boardId)), last'.id)]_vars

\* three boards were created, the second one was renamed, the first one was
\* soft-deleted, and findAll lists the second and the third, in that order
C14_Witness ==
  /\ last.op = "Board.findAll"
  /\ Len(boards) = 3
  /\ boards[2].title = "t2"
  /\ boards[1].deletedAt # NULL
  /\ IdsOf(BoardFindAll(boards)) = <<2, 3>>

\* three posts were created under one board, the first one was soft-deleted,
\* and findAll for the board lists the second and the third, in that order
C14_PostsListed ==
  /\ last.op = "Post.findAll"
  /\ last.id # NoFilter
  /\ Len(posts) = 3
  /\ posts[1].deletedAt # NULL
  /\ IdsOf(PostFindAll(posts, last.id)) = <<2, 3>>

(* ---------------- C15 ---------------- *)
\* C15: a successful create returns a record with the supplied title and
\* description / content (and boardId), createdAt = updatedAt = the time of
\* the call and deletedAt null; the record is the new last element of the
\* array, and findOne with its id right after the call returns it.
C15_CreateResultIsActiveAndVisible ==
  [][/\ last'.op = "Board.create" /\ last'.err = "none" =>
          \A title \in CreateTitles, description \in CreateBodies :
            BoardCreate(title, description) =>
              LET r == BoardCreateOp(boards, boardNextId, title, description, clock')
                  b == r.ret[1]
              IN /\ b = Board(boardNextId, title, description, clock', clock', NULL)
                 /\ clock' >= clock
                 /\ boards' = Append(boards, b)
                 /\ BoardFindOne(boards', b.id).ret = <<b>>
     /\ last'.op = "Post.create" /\ last'.err = "none" =>
          \A title \in CreateTitles, content \in CreateBodies :
            PostCreate(last'.id, title, content) =>
              LET r == PostCreateOp(posts, postNextId, boards, last'.id, title,
                                    content, clock')
                  p == r.ret[1]
              IN /\ p = Post(postNextId, last'.id, title, content, clock', clock', NULL)
                 /\ clock' >= clock
                 /\ posts' = Append(posts, p)
                 /\ PostFindOne(posts', p.id).ret = <<p>>]_vars

\* a second post was created later than the first and findOne returns it
C15_Witness ==
  /\ last.op = "Post.create"
  /\ last.err = "none"
  /\ Len(posts) = 2
  /\ posts[2].createdAt > posts[1].createdAt
  /\ posts[2].createdAt = posts[2].updatedAt
  /\ PostFindOne(posts, posts[2].id).ret = <<posts[2]>>

(* ---------------- C16 ---------------- *)
\* C16: no step changes the createdAt (or the identifier) of a record that
\* exists: whatever is created, updated or soft-deleted, every record keeps
\* the createdAt it got when it was created.
C16_CreatedAtImmutable ==
  [][/\ Len(boards') >= Len(boards)
     /\ \A i \in 1..Len(boards) :
          /\ boards'[i].id = boards[i].id
          /\ boards'[i].createdAt = boards[i].createdAt
     /\ Len(posts') >= Len(posts)
     /\ \A i \in 1..Len(posts) :
          /\ posts'[i].id = posts[i].id
          /\ posts'[i].createdAt = posts[i].createdAt]_vars

\* a post was updated and then soft-deleted, both later than its creation
C16_Witness ==
  /\ last.op = "Post.remove"
  /\ last.err = "none"
  /\ \E p \in Range(posts) :
       /\ p.id = last.id
       /\ p.updatedAt > p.createdAt
       /\ p.deletedAt > p.createdAt

(* ---------------- C17 ---------------- *)
\* C17, the in-memory part: a successful in-memory Post.update leaves id,
\* boardId, createdAt and deletedAt of its target as they were.
C17_InMemoryUpdateKeepsIdentity ==
  [][last'.op = "Post.update" /\ last'.err = "none" =>
       LET k == PosOf(posts, last'.id)
       IN /\ posts'[k].id = posts[k].id
          /\ posts'[k].boardId = posts[k].boardId
          /\ posts'[k].createdAt = posts[k].createdAt
          /\ posts'[k].deletedAt = posts[k].deletedAt]_vars

\* C17 as stated: in every PostService.update implementation, the
\* repository-backed one included, whatever properties the update input
\* carries, a successful update leaves id, boardId (board_id), createdAt and
\* deletedAt of the post as they were.
C17_PostUpdateChangesOnlyTitleAndContent ==
  [][/\ last'.op = "Post.update" /\ last'.err = "none" =>
          LET k == PosOf(posts, last'.id)
          IN /\ posts'[k].id = posts[k].id
             /\ posts'[k].boardId = posts[k].boardId
             /\ posts'[k].createdAt = posts[k].createdAt
             /\ posts'[k].deletedAt = posts[k].deletedAt
     /\ last'.op = "Repo.update" /\ last'.err = "none" =>
          \A r \in 1..MaxReqs :
            RepoUpdateSave(r) =>
              LET k == RowOf(rows, reqs[r].id)
              IN /\ rows'[k].id = rows[k].id
                 /\ rows'[k].board_id = rows[k].board_id
                 /\ rows'[k].createdAt = rows[k].createdAt
                 /\ rows'[k].deletedAt = rows[k].deletedAt]_vars

(* ---------------- C18 ---------------- *)
\* the posts whose boardId is the id, in the order of the collection
PostsWithBoardId(ps, id) == SelectSeq(ps, LAMBDA post : post.boardId = id)

\* C18: the query for board id succeeds, changes no state, and its answer is
\* exactly the posts whose boardId is id; a post created under board B is in
\* the answer for B from then on, so after create board 1, create post 1
\* under it, the answer for board 1 is [post 1].
C18_SearchPostsByBoard ==
  [][/\ last'.op = "Board.searchPostsByBoard" =>
          LET res == PostsWithBoardId(posts, last'.id)
          IN /\ last'.err = "none"
             /\ UNCHANGED <<boards, boardNextId, posts, postNextId, clock>>
             /\ \A p \in Range(posts) : p \in Range(res) <=> p.boardId = last'.id
     /\ last'.op = "Post.create" /\ last'.err = "none" =>
          PostsWithBoardId(posts', last'.id)
            = Append(PostsWithBoardId(posts, last'.id), posts'[Len(posts')])]_vars

\* C18, what the route does instead: every GET /boards/:id/posts ends in a
\* TypeError, whatever the stores hold, and changes no state.
C18_SearchPostsByBoardThrows ==
  [][last'.op = "Board.searchPostsByBoard" =>
       /\ last'.err = "TypeError"
       /\ UNCHANGED <<boards, boardNextId, posts, postNextId, clock>>]_vars

\* the scenario of C18: board 1 and post 1 under it exist and nothing else,
\* and the query for board 1 was asked
C18_ScenarioAsked ==
  /\ last.op = "Board.searchPostsByBoard"
  /\ last.id = 1
  /\ Len(boards) = 1
  /\ Len(posts) = 1
  /\ posts[1].boardId = 1

(* ---------------- C19 ---------------- *)
\* C19: every exception of a named class has the status of its class,
\* whatever message and error code it was constructed with: BadRequest 400,
\* Unauthorized 401, Forbidden 403, NotFound 404, Conflict 409,
\* InternalServerError 500, NotImplemented 501, ServiceUnavailable 503,
\* GatewayTimeout 504; ClientErrorException constructed without a status has
\* 400 and ServerErrorException constructed without a status has 500.
C19_FixedStatusPerClass ==
  [][/\ exc'.name = "BadRequestException" => getStatus(exc') = 400
     /\ exc'.name = "UnauthorizedException" => getStatus(exc') = 401
     /\ exc'.name = "ForbiddenException" => getStatus(exc') = 403
     /\ exc'.name = "NotFoundException" => getStatus(exc') = 404
     /\ exc'.name = "ConflictException" => getStatus(exc') = 409
     /\ exc'.name = "InternalServerErrorException" => getStatus(exc') = 500
     /\ exc'.name = "NotImplementedException" => getStatus(exc') = 501
     /\ exc'.name = "ServiceUnavailableException" => getStatus(exc') = 503
     /\ exc'.name = "GatewayTimeoutException" => getStatus(exc') = 504
     /\ \A message \in Messages, errorCode \in ErrorCodes :
          /\ NewClientError(message, NoStatus, errorCode) => getStatus(exc') = 400
          /\ NewServerError(message, NoStatus, errorCode) => getStatus(exc') = 500]_vars

\* a NotFoundException constructed with a message and an error code of the
\* caller's
C19_Witness ==
  /\ exc.name = "NotFoundException"
  /\ exc.message = "m1"
  /\ exc.errorCode = "E1"
  /\ getStatus(exc) = 404

(* ---------------- C20 ---------------- *)
\* C20: for every exception constructed, isClientError() is true exactly when
\* its status is in 400..499, isServerError() exactly when it is in 500..599,
\* and the two are never both true.
C20_ClientServerPredicates ==
  exc # NoException =>
    /\ isClientError(exc) <=> getStatus(exc) \in 400..499
    /\ isServerError(exc) <=> getStatus(exc) \in 500..599
    /\ ~(isClientError(exc) /\ isServerError(exc))

\* a ClientErrorException constructed with status 500: the predicates follow
\* the status, not the class
C20_Witness ==
  /\ exc.name = "ClientErrorException"
  /\ getStatus(exc) = 500
  /\ isServerError(exc)
  /\ ~isClientError(exc)

(* ---------------- C21 ---------------- *)
\* the classes of the two families
ClientFamily ==
  {"ClientErrorException", "BadRequestException", "UnauthorizedException",
   "ForbiddenException", "NotFoundException", "ConflictException"}
ServerFamily ==
  {"ServerErrorException", "InternalServerErrorException",
   "NotImplementedException", "ServiceUnavailableException",
   "GatewayTimeoutException"}

\* C21, the named classes: every exception of a named subclass has a status
\* of its family's range and the matching predicate true.
C21_NamedClassesByStatusClass ==
  /\ exc.name \in ClientFamily \ {"ClientErrorException"} =>
       getStatus(exc) \in 400..499 /\ isClientError(exc) /\ ~isServerError(exc)
  /\ exc.name \in ServerFamily \ {"ServerErrorException"} =>
       getStatus(exc) \in 500..599 /\ isServerError(exc) /\ ~isClientError(exc)

\* C21 as stated: every exception of the client-fault family has a status in
\* 400..499 and isClientError() true, every exception of the server-fault
\* family has a status in 500..599 and isServerError() true, whatever
\* statusCode its constructor received.
C21_FamiliesByStatusClass ==
  /\ exc.name \in ClientFamily =>
       getStatus(exc) \in 400..499 /\ isClientError(exc)
  /\ exc.name \in ServerFamily =>
       getStatus(exc) \in 500..599 /\ isServerError(exc)

(* ---------------- C22 ---------------- *)
\* C22: in the in-memory stores every step is one whole call, so whenever a
\* post is appended its board is active in the state the call started in and
\* in the state it left: no Board.remove runs between the board check and
\* the insertion.
C22_InMemoryCreateIsAtomic ==
  [][posts' # posts /\ Len(posts') > Len(posts) =>
       LET p == posts'[Len(posts')]
       IN /\ Len(posts') = Len(posts) + 1
          /\ HasActive(boards, p.boardId)
          /\ HasActive(boards', p.boardId)
          /\ boards' = boards]_vars

\* a board was soft-deleted while it has an active post: the removal came
\* after the post was stored, not before
C22_Witness ==
  /\ last.op = "Board.remove"
  /\ last.err = "none"
  /\ \E p \in ActiveOf(posts) :
       /\ p.boardId = last.id
       /\ \E b \in Range(boards) :
            b.id = p.boardId /\ b.deletedAt # NULL /\ b.deletedAt >= p.createdAt

(* ---------------- C23 ---------------- *)
\* C23: in the repository-backed create the board check and the save are two
\* steps: the check step stores nothing, and the save step of a create that
\* passed its check stores an active post under the board it checked without
\* looking at the board again, so a Board.remove between the two leaves an
\* active post whose board is soft-deleted.
C23_CreateCheckAndSaveAreSeparate ==
  [][\A r \in 1..MaxReqs :
       /\ reqs[r] = Idle /\ reqs'[r].st = "create" =>
            /\ HasActive(boards, reqs'[r].id)
            /\ UNCHANGED <<rows, rowNextId, boards>>
       /\ reqs[r].st = "create" /\ reqs'[r] = Idle =>
            /\ last'.err = "none"
            /\ Len(rows') = Len(rows) + 1
            /\ rows'[Len(rows')].board_id = reqs[r].id
            /\ rows'[Len(rows')].deletedAt = NULL
            /\ UNCHANGED boards]_vars

\* a create has just stored an active post under a board that was
\* soft-deleted after the create's check
C23_Witness ==
  /\ last.op = "Repo.create"
  /\ last.err = "none"
  /\ rows # <<>>
  /\ rows[Len(rows)].deletedAt = NULL
  /\ rows[Len(rows)].board_id = last.id
  /\ HasDeleted(boards, last.id)

(* ---------------- C24 ---------------- *)
\* C24 as stated: each repository-backed update and remove is one
\* read-modify-write unit: when the call writes, the row is as its lookup
\* found it, so an update never writes a post that was soft-deleted after the
\* lookup, and a field the update does not supply still has the value the
\* lookup read (no change of another update is overwritten).
C24_ReadModifyWriteUnit ==
  [][\A r \in 1..MaxReqs :
       /\ reqs[r].st = "update" /\ reqs'[r] = Idle =>
            LET k == RowOf(rows, reqs[r].id)
                post == reqs[r].post[1]
            IN /\ rows[k].deletedAt = NULL
               /\ reqs[r].title = Absent => rows[k].title = post.title
               /\ reqs[r].content = Absent => rows[k].content = post.content
       /\ reqs[r].st = "remove" /\ reqs'[r] = Idle =>
            rows[RowOf(rows, reqs[r].id)] = reqs[r].post[1]]_vars

(* ---------------- C25 ---------------- *)
\* the calls of each store, as `last` names them
BoardOps == {"Board.create", "Board.findAll", "Board.findOne", "Board.update",
             "Board.remove"}
PostOps == {"Post.create", "Post.findAll", "Post.findOne", "Post.update",
            "Post.remove"}

\* C25: no call of PostService, Post.create with its board lookup included,
\* changes a board or the board id counter, and no call of BoardService
\* changes a post or the post id counter.
C25_StoresMutateOnlyTheirOwn ==
  [][/\ last'.op \in PostOps => UNCHANGED <<boards, boardNextId>>
     /\ last'.op \in BoardOps => UNCHANGED <<posts, postNextId>>]_vars

\* a post was created under the second board while both stores hold records
C25_Witness ==
  /\ last.op = "Post.create"
  /\ last.err = "none"
  /\ last.id = 2
  /\ Len(boards) = 2
  /\ posts[Len(posts)].boardId = 2

(* ---------------- C26 ---------------- *)
\* the read calls, as `last` names them
ReadOps == {"Board.findAll", "Board.findOne", "Post.findAll", "Post.findOne"}

\* C26: a findAll or findOne step of either store, successful or failing,
\* leaves both arrays, both counters and the clock unchanged; the reads are
\* functions of the arrays alone, so a read asked again right after it gives
\* the same answer.
C26_ReadsHaveNoSideEffect ==
  [][last'.op \in ReadOps =>
       UNCHANGED <<boards, boardNextId, posts, postNextId, clock>>]_vars

\* a findOne succeeded on a board while posts exist too
C26_Witness ==
  /\ last.op = "Board.findOne"
  /\ last.err = "none"
  /\ HasActive(boards, last.id)
  /\ Len(boards) = 2
  /\ Len(posts) >= 1

(* ---------------- C27 ---------------- *)
\* C27: a soft-deleted record never changes again: no step sets its deletedAt
\* back to null or changes any of its fields, and every findOne, update and
\* remove on its id raises NotFound, so a second remove fails and the first
\* deletion time stays.
C27_SoftDeleteIsPermanent ==
  [][/\ \A i \in 1..Len(boards) :
          boards[i].deletedAt # NULL =>
            Len(boards') >= i /\ boards'[i] = boards[i]
     /\ \A i \in 1..Len(posts) :
          posts[i].deletedAt # NULL =>
            Len(posts') >= i /\ posts'[i] = posts[i]
     /\ last'.op \in {"Board.findOne", "Board.update", "Board.remove"}
          /\ HasDeleted(boards, last'.id) => last'.err = "NotFound"
     /\ last'.op \in {"Post.findOne", "Post.update", "Post.remove"}
          /\ HasDeleted(posts, last'.id) => last'.err = "NotFound"]_vars

\* a second remove of a board was refused at a later time than the first one,
\* and the board still carries the first deletion time
C27_Witness ==
  /\ last.op = "Board.remove"
  /\ last.err = "NotFound"
  /\ \E b \in Range(boards) :
       b.id = last.id /\ b.deletedAt # NULL /\ b.deletedAt < clock

(* ---------------- C28 ---------------- *)
\* C28: Post.create raises BadRequest, with the message 'Board with ID
\* <boardId> not found', whenever the board lookup threw, whatever it threw,
\* and only then; the lookup's own error (NotFound, a server fault, anything
\* else) never reaches the caller, and nothing is stored.
C28_AnyLookupFailureIsBadRequest ==
  [][last'.op = "Post.create" =>
       /\ last'.err \in {"none", "BadRequest"}
       /\ (last'.err = "BadRequest") <=> (mockFindOne # "none")
       /\ mockFindOne # "none" =>
            /\ \A title \in CreateTitles, content \in CreateBodies :
                 PostCreateGiven(posts, postNextId, mockFindOne, last'.id, title,
                                 content, clock).message
                   = <<"Board with ID", last'.id, "not found">>
            /\ UNCHANGED <<posts, postNextId>>]_vars

\* a create was refused with BadRequest while the lookup is set up to throw a
\* server fault
C28_Witness ==
  /\ last.op = "Post.create"
  /\ last.err = "BadRequest"
  /\ mockFindOne = "ServiceUnavailable"

(* ---------------- C29 ---------------- *)
\* C29: with a clock that never runs backwards, every board and every post
\* has createdAt <= updatedAt, and createdAt <= deletedAt once deletedAt is
\* set; every post was created no earlier than the board its boardId names.
C29_TimestampOrdering ==
  /\ \A b \in Range(boards) :
       /\ b.createdAt <= b.updatedAt
       /\ b.deletedAt # NULL => b.createdAt <= b.deletedAt
  /\ \A p \in Range(posts) :
       /\ p.createdAt <= p.updatedAt
       /\ p.deletedAt # NULL => p.createdAt <= p.deletedAt
       /\ \E b \in Range(boards) : b.id = p.boardId /\ b.createdAt <= p.createdAt

\* a post created later than its board was soft-deleted, after the board had
\* been soft-deleted too
C29_Witness ==
  /\ last.op = "Post.remove"
  /\ last.err = "none"
  /\ \E p \in Range(posts), b \in Range(boards) :
       /\ p.id = last.id
       /\ b.id = p.boardId
       /\ b.createdAt < p.createdAt
       /\ b.deletedAt # NULL
       /\ p.deletedAt # NULL

(* ---------------- C30 ---------------- *)
\* C30: the unfiltered Post.findAll() holds every active post exactly once;
\* every active post is in Post.findAll(b) for exactly one board id b, its
\* own boardId; the per-board answers together hold the same posts as the
\* unfiltered one, and each is the unfiltered answer restricted to its board,
\* in the same order.
C30_FilterPartitionsListing ==
  LET all == PostFindAll(posts, NoFilter)
      of(b) == PostFindAll(posts, b)
  IN /\ Range(all) = ActiveOf(posts)
     /\ \A p \in ActiveOf(posts) : Cardinality({i \in 1..Len(all) : all[i] = p}) = 1
     /\ \A p \in ActiveOf(posts) :
          {b \in BoardIds : p \in Range(of(b))} = {p.boardId}
     /\ UNION {Range(of(b)) : b \in BoardIds} = Range(all)
     /\ \A b \in BoardIds : of(b) = SelectSeq(all, LAMBDA p : p.boardId = b)

\* two boards with one active post each: the two posts are listed together
\* without a filter and apart with one
C30_Witness ==
  /\ last.op = "Post.findAll"
  /\ last.id = NoFilter
  /\ Len(PostFindAll(posts, NoFilter)) = 2
  /\ Len(PostFindAll(posts, 1)) = 1
  /\ Len(PostFindAll(posts, 2)) = 1
====
